---- MODULE Spec2Model ----
(***************************************************************************)
(* Model of the OrthoVaidhya chat widget: the ApiService session client    *)
(* (src/src/services/api.js) and the Chat view that drives it              *)
(* (src/src/components/Chat/Chat.jsx).                                     *)
(*                                                                         *)
(* Strings the code inspects (input text, button values) are sequences of  *)
(* one-character strings so that trim() and JS truthiness are computed,    *)
(* not assumed.  A message's timestamp is presentation-only and formatted  *)
(* from the same clock as its id; it is not modelled.                      *)
(***************************************************************************)
EXTENDS Integers, Sequences, FiniteSets, TLC

VARIABLES
    storage,        \* localStorage: a function from keys to stored strings
    sessionId,      \* ApiService.sessionId
    messages,       \* Chat state: the transcript
    inputMessage,   \* Chat state: the content of the input box
    isLoading,      \* Chat state: busy flag
    isConnected,    \* Chat state: connectivity flag
    pending,        \* fetch calls in flight, each awaited by the handler that issued it
    settled,        \* the call whose handler resumed in the last step, with the outcome
                    \* of its fetch; NoCall after any other step
    now,            \* Date.now(), a non-decreasing millisecond clock
    sends,          \* accepted sends since the page was loaded
    okSends,        \* sends completed with a bot message since the page was loaded
    resets,         \* resets started since the page was loaded
    calls,          \* sends and resets started so far, over all page loads
    returned        \* values getOrCreateSessionId returned since the last reset or clearing

vars == <<storage, sessionId, messages, inputMessage, isLoading, isConnected,
          pending, settled, now, sends, okSends, resets, calls, returned>>

-----------------------------------------------------------------------------
(* Bounds of the exploration *)

\* sends and resets started in one exploration
MaxCalls == 2
\* the last value of the clock
MaxClock == 1

-----------------------------------------------------------------------------
(* Text *)

SP == " "

\* String.prototype.trim: strip leading and trailing white space
RECURSIVE trimStart(_)
trimStart(s) ==
    IF s # <<>> /\ Head(s) = SP THEN trimStart(Tail(s)) ELSE s

RECURSIVE trimEnd(_)
trimEnd(s) ==
    IF s # <<>> /\ s[Len(s)] = SP THEN trimEnd(SubSeq(s, 1, Len(s) - 1)) ELSE s

trim(s) == trimEnd(trimStart(s))

\* what the user can put into the input box
InputTexts == {<<>>, <<SP>>, <<SP, "a", SP>>}

WelcomeText == <<"W", "e", "l", "c", "o", "m", "e">>
ConnectErrorText == <<"U", "n", "a", "b", "l", "e">>
ApologyText == <<"S", "o", "r", "r", "y">>

-----------------------------------------------------------------------------
(* What the backend and the transport can answer *)

KEY == "chat_session_id"

\* Math.random().toString(36).substring(7): one representative token.  Two
\* identifiers generated at different clock values differ in their time
\* part; two generated in the same millisecond with the same token collide.
RandomTokens == {"r"}

\* quick-reply buttons of a reply: an ordinary value, a white-space value
\* and an empty value
ReplyButtons == << [text |-> <<"Y">>, value |-> <<"y">>],
                   [text |-> <<"N">>, value |-> <<SP>>],
                   [text |-> <<"E">>, value |-> <<>>] >>

\* response objects of /api/chat: a field that is absent is absent from the record
Replies ==
    { [text |-> <<"H", "i">>],
      [text |-> <<"Q">>, type |-> "question", buttons |-> ReplyButtons] }

\* parsed JSON bodies
ChatBodies ==
    { [status |-> "success", response |-> r] : r \in Replies }
    \cup { [status |-> "success"],
           [status |-> "error", response |-> [text |-> <<"H", "i">>]] }

ResetBodies == { [status |-> "success"] }
HealthBodies == { [status |-> "healthy"] }

StatusCodes == {200, 500}

Bodies(kind) ==
    CASE kind = "chat" -> ChatBodies
      [] kind = "reset" -> ResetBodies
      [] OTHER -> HealthBodies

\* Response.ok
ok(status) == status \in 200..299

\* a body the handlers would accept
GoodBody(kind) ==
    CHOOSE d \in Bodies(kind) :
        d.status \in {"success", "healthy"} /\ (kind = "chat" => "response" \in DOMAIN d)

\* how the transport settles one fetch: the network fails, or a response
\* arrives whose body parses as JSON or does not.  The body of a non-2xx
\* response is never read; it is enumerated with a body the handlers would
\* accept.
Outcomes(kind) ==
    { [net |-> "failed"] }
    \cup { [net |-> "response", status |-> s, parsable |-> FALSE] :
              s \in {c \in StatusCodes : ok(c)} }
    \cup { [net |-> "response", status |-> s, parsable |-> TRUE, data |-> d] :
              s \in {c \in StatusCodes : ok(c)}, d \in Bodies(kind) }
    \cup { [net |-> "response", status |-> s, parsable |-> TRUE, data |-> GoodBody(kind)] :
              s \in {c \in StatusCodes : ~ok(c)} }

NoCall == [n |-> -1, endpoint |-> "none"]

-----------------------------------------------------------------------------
(* ApiService *)

Resolved(v) == [settled |-> "resolved", value |-> v]
Rejected(e) == [settled |-> "rejected", error |-> e]

\* localStorage.getItem: <<>> stands for null
getItem(st, key) == IF key \in DOMAIN st THEN <<st[key]>> ELSE <<>>

\* localStorage.setItem
setItem(st, key, value) ==
    [k \in DOMAIN st \cup {key} |-> IF k = key THEN value ELSE st[k]]

\* variant: an identifier is generated whatever the storage holds
getOrCreateSessionId_AlwaysNew(st, rnd, t) ==
    LET fresh == [prefix |-> "session_", random |-> rnd, time |-> t]
    IN  [id |-> fresh, storage |-> setItem(st, KEY, fresh)]

\* getOrCreateSessionId, with the random token and the clock it would read:
\* the identifier it returns and the storage it leaves
getOrCreateSessionId(st, rnd, t) ==
    LET found == getItem(st, KEY) IN
    IF found # <<>>
    THEN [id |-> found[1], storage |-> st]
    ELSE LET fresh == [prefix |-> "session_", random |-> rnd, time |-> t]
         IN  [id |-> fresh, storage |-> setItem(st, KEY, fresh)]

\* makeRequest after its fetch has settled with outcome o
makeRequest(o) ==
    IF o.net = "failed" THEN Rejected("Failed to fetch")
    ELSE IF ~ok(o.status) THEN Rejected("HTTP error! status")
    ELSE IF ~o.parsable THEN Rejected("SyntaxError")
    ELSE Resolved(o.data)

\* variant: the body is validated in the client
sendMessage_Validating(o) ==
    LET r == makeRequest(o) IN
    IF r.settled = "resolved" /\ ~(r.value.status = "success" /\ "response" \in DOMAIN r.value)
    THEN Rejected("ProtocolError")
    ELSE r

sendMessage(o) == makeRequest(o)

healthCheck(o) == makeRequest(o)

\* variant: resetSession generates a fresh identifier but does not persist it
resetSession_MemoryOnly(o, sid, st, rnd, t) ==
    LET response == makeRequest(o) IN
    IF response.settled = "rejected"
    THEN [result |-> response, sessionId |-> sid, storage |-> st]
    ELSE [result |-> response,
          sessionId |-> [prefix |-> "session_", random |-> rnd, time |-> t + 1],
          storage |-> st]

\* variant: the identifier is regenerated in a finally block
resetSession_Finally(o, sid, st, rnd, t) ==
    LET response == makeRequest(o)
        g == getOrCreateSessionId(st, rnd, t)
    IN  [result |-> response, sessionId |-> g.id, storage |-> g.storage]

\* resetSession after its fetch has settled: the promise it returns, and the
\* session identifier and storage it leaves
resetSession(o, sid, st, rnd, t) ==
    LET response == makeRequest(o) IN
    IF response.settled = "rejected"
    THEN [result |-> response, sessionId |-> sid, storage |-> st]
    ELSE LET g == getOrCreateSessionId(st, rnd, t)
         IN  [result |-> response, sessionId |-> g.id, storage |-> g.storage]

\* variant: the identifier is refreshed on every call
sessionAfterCall_Refreshing(sid, st, rnd, t) ==
    LET g == getOrCreateSessionId_AlwaysNew(st, rnd, t)
    IN  [sessionId |-> g.id, storage |-> g.storage]

\* sendMessage and healthCheck only read this.sessionId: the session
\* identifier and the storage they leave
sessionAfterCall(sid, st, rnd, t) == [sessionId |-> sid, storage |-> st]

\* variant: a failed fetch is issued again
inFlightAfterSettle_Retrying(calls_, c, response) ==
    IF response.settled = "rejected" THEN calls_ ELSE calls_ \ {c}

\* makeRequest issues one fetch and returns or throws once it has settled:
\* the calls in flight after call c has settled
inFlightAfterSettle(calls_, c, response) == calls_ \ {c}

\* request bodies
ChatRequest(n, text, sid) ==
    [n |-> n, endpoint |-> "/api/chat", method |-> "POST",
     body |-> [message |-> text, session_id |-> sid]]

ResetRequest(n, sid) ==
    [n |-> n, endpoint |-> "/api/reset", method |-> "POST",
     body |-> [session_id |-> sid]]

HealthRequest ==
    [n |-> 0, endpoint |-> "/health", method |-> "GET"]

Kind(c) ==
    CASE c.endpoint = "/api/chat" -> "chat"
      [] c.endpoint = "/api/reset" -> "reset"
      [] OTHER -> "health"

-----------------------------------------------------------------------------
(* Chat: the messages it builds *)

WelcomeMessage(t) ==
    [id |-> t, text |-> WelcomeText, sender |-> "bot", type |-> "message", buttons |-> <<>>]

ConnectErrorMessage(t) ==
    [id |-> t, text |-> ConnectErrorText, sender |-> "system", type |-> "error", buttons |-> <<>>]

UserMessage(t, text) ==
    [id |-> t, text |-> text, sender |-> "user", type |-> "message", buttons |-> <<>>]

\* response.response.type || 'message'
TypeOrDefault(reply) ==
    IF "type" \in DOMAIN reply /\ reply.type # "" THEN reply.type ELSE "message"

\* response.response.buttons || []  (an array, even an empty one, is truthy)
ButtonsOrDefault(reply) ==
    IF "buttons" \in DOMAIN reply THEN reply.buttons ELSE <<>>

BotMessage(t, reply) ==
    [id |-> t + 1, text |-> reply.text, sender |-> "bot",
     type |-> TypeOrDefault(reply), buttons |-> ButtonsOrDefault(reply)]

ErrorMessage(t) ==
    [id |-> t + 1, text |-> ApologyText, sender |-> "system", type |-> "error", buttons |-> <<>>]

\* response.status === 'success' && response.response
Usable(data) == data.status = "success" /\ "response" \in DOMAIN data

-----------------------------------------------------------------------------
(* Initial state: the page has loaded, the ApiService singleton has been   *)
(* constructed against an empty or a previously used localStorage, Chat    *)
(* has rendered once and its effect has started initializeChat.            *)

InitialStorages ==
    { <<>> } \cup { setItem(<<>>, KEY, [prefix |-> "session_", random |-> r, time |-> 0]) :
                      r \in RandomTokens }

Init ==
    \E st \in InitialStorages, rnd \in RandomTokens :
        LET g == getOrCreateSessionId(st, rnd, 0) IN
        /\ storage = g.storage
        /\ sessionId = g.id
        /\ returned = {g.id}
        /\ messages = <<>>
        /\ inputMessage = <<>>
        /\ isLoading = FALSE
        /\ isConnected = FALSE
        /\ pending = {HealthRequest}
        /\ settled = NoCall
        /\ now = 0
        /\ sends = 0
        /\ okSends = 0
        /\ resets = 0
        /\ calls = 0

-----------------------------------------------------------------------------
(* Environment *)

\* the millisecond clock advances
Tick ==
    /\ now < MaxClock
    /\ now' = now + 1
    /\ settled' = NoCall
    /\ UNCHANGED <<storage, sessionId, messages, inputMessage, isLoading, isConnected,
                   pending, sends, okSends, resets, calls, returned>>

\* localStorage is cleared from outside the client
ClearStorage ==
    /\ KEY \in DOMAIN storage
    /\ storage' = <<>>
    /\ returned' = {}
    /\ settled' = NoCall
    /\ UNCHANGED <<sessionId, messages, inputMessage, isLoading, isConnected,
                   pending, now, sends, okSends, resets, calls>>

\* the page is reloaded: pending handlers are gone with the old page, the
\* module is evaluated again (new ApiService()), Chat mounts afresh
Reload ==
    /\ \E rnd \in RandomTokens :
        LET g == getOrCreateSessionId(storage, rnd, now) IN
        /\ storage' = g.storage
        /\ sessionId' = g.id
        /\ returned' = returned \cup {g.id}
    /\ messages' = <<>>
    /\ inputMessage' = <<>>
    /\ isLoading' = FALSE
    /\ isConnected' = FALSE
    /\ pending' = {HealthRequest}
    /\ settled' = NoCall
    /\ sends' = 0
    /\ okSends' = 0
    /\ resets' = 0
    /\ UNCHANGED <<now, calls>>

-----------------------------------------------------------------------------
(* Chat: what the rendered controls allow *)

\* <input disabled={isLoading || !isConnected}>
InputEnabled == ~isLoading /\ isConnected

\* <button className="send-button" disabled={isLoading || !inputMessage.trim() || !isConnected}>
SendButtonEnabled == ~isLoading /\ trim(inputMessage) # <<>> /\ isConnected

\* <button className="message-button" disabled={isLoading}>
QuickReplyEnabled == ~isLoading

\* the quick-reply buttons on screen: message index and button index
QuickReplies ==
    { <<i, k>> \in (1..Len(messages)) \X (1..Len(ReplyButtons)) :
        k <= Len(messages[i].buttons) }

\* the next call number of this page
NextCall == sends + resets + 1

-----------------------------------------------------------------------------
(* Chat: handlers.  An async handler is one action up to its await and one *)
(* action, taken when the fetch of its call settles with outcome o, from   *)
(* there to its end.                                                       *)

\* messageText || inputMessage.trim(), messageText being <<>> for null and
\* <<s>> for the string s
textToSend(messageText, input) ==
    IF messageText # <<>> /\ messageText[1] # <<>> THEN messageText[1] ELSE trim(input)

\* if (!textToSend || isLoading) return
Rejects(text, loading) == text = <<>> \/ loading

\* handleSendMessage up to its await
handleSendMessage(messageText) ==
    LET text == textToSend(messageText, inputMessage) IN
    IF Rejects(text, isLoading)
    THEN UNCHANGED vars
    ELSE /\ messages' = Append(messages, UserMessage(now, text))
         /\ inputMessage' = <<>>
         /\ isLoading' = TRUE
         /\ pending' = pending \cup {ChatRequest(NextCall, text, sessionId)}
         /\ sends' = sends + 1
         /\ calls' = calls + 1
         /\ settled' = NoCall
         /\ UNCHANGED <<storage, sessionId, isConnected, now, okSends, resets, returned>>

\* variant: the reply replaces the transcript instead of being appended to it
transcriptAfterSend_Replacing(response, msgs, t) ==
    IF response.settled = "resolved" /\ Usable(response.value)
    THEN <<BotMessage(t, response.value.response)>>
    ELSE Append(msgs, ErrorMessage(t))

\* variant: a failed send is only logged
transcriptAfterSend_Silent(response, msgs, t) ==
    IF response.settled = "resolved" /\ Usable(response.value)
    THEN Append(msgs, BotMessage(t, response.value.response))
    ELSE msgs

\* variant: the message of a thrown error is shown to the user
transcriptAfterSend_Verbatim(response, msgs, t) ==
    IF response.settled = "resolved" /\ Usable(response.value)
    THEN Append(msgs, BotMessage(t, response.value.response))
    ELSE IF response.settled = "rejected"
    THEN Append(msgs, [ErrorMessage(t) EXCEPT !.text = <<response.error>>])
    ELSE Append(msgs, ErrorMessage(t))

\* the transcript handleSendMessage leaves once sendMessage has settled
transcriptAfterSend(response, msgs, t) ==
    IF response.settled = "resolved" /\ Usable(response.value)
    THEN Append(msgs, BotMessage(t, response.value.response))
    ELSE Append(msgs, ErrorMessage(t))

\* variant: the busy flag is cleared at the end of the try block
loadingAfterTry(response) == response.settled = "rejected"

\* the busy flag after the finally block of a handler
loadingAfterFinally(response) == FALSE

\* handleSendMessage from the settled call c to its end
handleSendMessageSettled(c, o) ==
    /\ c \in pending
    /\ Kind(c) = "chat"
    /\ o \in Outcomes("chat")
    /\ settled' = [n |-> c.n, endpoint |-> c.endpoint, http |-> o]
    /\ LET response == sendMessage(o) IN
        /\ messages' = transcriptAfterSend(response, messages, now)
        /\ okSends' = IF response.settled = "resolved" /\ Usable(response.value)
                      THEN okSends + 1 ELSE okSends
        /\ isLoading' = loadingAfterFinally(response)
        /\ pending' = inFlightAfterSettle(pending, c, response)
    /\ \E rnd \in RandomTokens :
        LET s == sessionAfterCall(sessionId, storage, rnd, now) IN
        /\ sessionId' = s.sessionId
        /\ storage' = s.storage
    /\ UNCHANGED <<inputMessage, isConnected, now, sends, resets, calls, returned>>

\* handleButtonClick
handleButtonClick(buttonValue) == handleSendMessage(<<buttonValue>>)

\* handleReset up to its await
handleReset ==
    /\ isLoading' = TRUE
    /\ pending' = pending \cup {ResetRequest(NextCall, sessionId)}
    /\ resets' = resets + 1
    /\ calls' = calls + 1
    /\ settled' = NoCall
    /\ UNCHANGED <<storage, sessionId, messages, inputMessage, isConnected, now, sends,
                   okSends, returned>>

\* variant: the transcript is reseeded in the finally block
transcriptAfterReset_Always(response, msgs, t) == <<WelcomeMessage(t)>>

\* the transcript handleReset leaves once resetSession has settled
transcriptAfterReset(response, msgs, t) ==
    IF response.settled = "resolved" THEN <<WelcomeMessage(t)>> ELSE msgs

\* variant: a reset that succeeds marks the view connected
connectedAfterReset_Reconnecting(response, connected) ==
    IF response.settled = "resolved" THEN TRUE ELSE connected

\* handleReset never calls setIsConnected: the connectivity flag it leaves
connectedAfterReset(response, connected) == connected

\* handleReset from the settled call c to its end
handleResetSettled(c, o) ==
    /\ c \in pending
    /\ Kind(c) = "reset"
    /\ o \in Outcomes("reset")
    /\ settled' = [n |-> c.n, endpoint |-> c.endpoint, http |-> o]
    /\ \E rnd \in RandomTokens :
        LET r == resetSession(o, sessionId, storage, rnd, now) IN
        /\ sessionId' = r.sessionId
        /\ storage' = r.storage
        /\ returned' = IF r.result.settled = "resolved" THEN {r.sessionId} ELSE returned
        /\ messages' = transcriptAfterReset(r.result, messages, now)
        /\ isLoading' = loadingAfterFinally(r.result)
        /\ isConnected' = connectedAfterReset(r.result, isConnected)
        /\ pending' = inFlightAfterSettle(pending, c, r.result)
    /\ UNCHANGED <<inputMessage, now, sends, okSends, resets, calls>>

\* variant: a failed health check is only logged
transcriptAfterInit_Silent(response, msgs, t) ==
    IF response.settled = "resolved" THEN <<WelcomeMessage(t)>> ELSE msgs

\* the transcript initializeChat leaves once healthCheck has settled
transcriptAfterInit(response, msgs, t) ==
    IF response.settled = "resolved" THEN <<WelcomeMessage(t)>> ELSE <<ConnectErrorMessage(t)>>

\* the connectivity flag initializeChat leaves once healthCheck has settled
connectedAfterInit(response) == response.settled = "resolved"

\* initializeChat from the settled health check c to its end
initializeChatSettled(c, o) ==
    /\ c \in pending
    /\ Kind(c) = "health"
    /\ o \in Outcomes("health")
    /\ settled' = [n |-> c.n, endpoint |-> c.endpoint, http |-> o]
    /\ LET response == healthCheck(o) IN
        /\ isConnected' = connectedAfterInit(response)
        /\ messages' = transcriptAfterInit(response, messages, now)
        /\ pending' = inFlightAfterSettle(pending, c, response)
    /\ \E rnd \in RandomTokens :
        LET s == sessionAfterCall(sessionId, storage, rnd, now) IN
        /\ sessionId' = s.sessionId
        /\ storage' = s.storage
    /\ UNCHANGED <<inputMessage, isLoading, now, sends, okSends, resets, calls, returned>>

-----------------------------------------------------------------------------
(* User events *)

\* onChange of the input box
TypeInput(v) ==
    /\ InputEnabled
    /\ v # inputMessage
    /\ inputMessage' = v
    /\ settled' = NoCall
    /\ UNCHANGED <<storage, sessionId, messages, isLoading, isConnected, pending, now,
                   sends, okSends, resets, calls, returned>>

\* onClick of the send button
ClickSend ==
    /\ SendButtonEnabled
    /\ calls < MaxCalls
    /\ handleSendMessage(<<>>)

\* Enter in the input box (handleKeyPress)
PressEnter ==
    /\ InputEnabled
    /\ calls < MaxCalls
    /\ handleSendMessage(<<>>)

\* onClick of a quick-reply button
ClickQuickReply(i, k) ==
    /\ <<i, k>> \in QuickReplies
    /\ QuickReplyEnabled
    /\ calls < MaxCalls
    /\ handleButtonClick(messages[i].buttons[k].value)

\* onClick of the reset icon, which is never disabled
ClickReset ==
    /\ calls < MaxCalls
    /\ handleReset

-----------------------------------------------------------------------------

Next ==
    \/ Tick
    \/ ClearStorage
    \/ Reload
    \/ \E v \in InputTexts : TypeInput(v)
    \/ ClickSend
    \/ PressEnter
    \/ \E i \in 1..Len(messages), k \in 1..Len(ReplyButtons) : ClickQuickReply(i, k)
    \/ ClickReset
    \/ \E c \in pending : \E o \in Outcomes(Kind(c)) : handleSendMessageSettled(c, o)
    \/ \E c \in pending : \E o \in Outcomes(Kind(c)) : handleResetSettled(c, o)
    \/ \E c \in pending : \E o \in Outcomes(Kind(c)) : initializeChatSettled(c, o)

Spec == Init /\ [][Next]_vars

\* every fetch settles, and the handler awaiting it then runs to its end
Fairness ==
    /\ WF_vars(\E c \in pending : \E o \in Outcomes(Kind(c)) : handleSendMessageSettled(c, o))
    /\ WF_vars(\E c \in pending : \E o \in Outcomes(Kind(c)) : handleResetSettled(c, o))
    /\ WF_vars(\E c \in pending : \E o \in Outcomes(Kind(c)) : initializeChatSettled(c, o))

FairSpec == Spec /\ Fairness

-----------------------------------------------------------------------------
(* Vocabulary of the properties *)

\* this step is the resumption of the handler awaiting a call to endpoint
Resumed(endpoint) == pending' # pending /\ settled'.endpoint = endpoint

\* the call settled in the last step was to endpoint
JustSettled(endpoint) == settled.endpoint = endpoint

\* the exchange completed with a 2xx status and a body that parses
Completed(o) == o.net = "response" /\ ok(o.status) /\ o.parsable

\* the exchange completed and its body is a well-formed reply
WellFormed(o) ==
    Completed(o) /\ o.data.status = "success" /\ "response" \in DOMAIN o.data

IsWelcome(m) ==
    m.sender = "bot" /\ m.type = "message" /\ m.text = WelcomeText /\ m.buttons = <<>>

IsSystemError(m) == m.sender = "system" /\ m.type = "error"

InFlight(kinds) == {c \in pending : Kind(c) \in kinds}

-----------------------------------------------------------------------------
(* C1 *)

\* C1, as claimed: right after handleReset has run to its end the transcript
\* is exactly the welcome message, whether the remote reset succeeded or not.
C1_ResetAlwaysSeedsWelcome ==
    JustSettled("/api/reset") => Len(messages) = 1 /\ IsWelcome(messages[1])

\* C1, amended: when handleReset has run to its end after a successful remote
\* reset the transcript is exactly the welcome message, for every prior
\* transcript; after a failed remote reset the transcript is left as it was.
C1_ResetSeedsWelcomeOnSuccess ==
    [][Resumed("/api/reset") =>
          IF Completed(settled'.http)
          THEN Len(messages') = 1 /\ IsWelcome(messages'[1])
          ELSE messages' = messages]_vars

\* a successful reset has just replaced a transcript that held a send
C1_Witness ==
    /\ JustSettled("/api/reset")
    /\ Completed(settled.http)
    /\ sends > 0
    /\ Len(messages) = 1

-----------------------------------------------------------------------------
(* C2 *)

\* C2, as claimed: after resetSession completes successfully the session
\* identifier, in memory and as a later getOrCreateSessionId returns it from
\* storage, differs from the one held before the reset.
C2_ResetChangesSessionId ==
    [][Resumed("/api/reset") /\ Completed(settled'.http) =>
          /\ sessionId' # sessionId
          /\ \A rnd \in RandomTokens :
                getOrCreateSessionId(storage', rnd, now').id # sessionId]_vars

-----------------------------------------------------------------------------
(* C3 *)

\* C3, as claimed: resetSession regenerates the identifier also when its HTTP
\* call fails, so that the identifier after the failed call differs from the
\* one before it.
C3_FailedResetChangesSessionId ==
    [][Resumed("/api/reset") /\ ~Completed(settled'.http) =>
          sessionId' # sessionId]_vars

\* C3, amended: when the HTTP call of resetSession fails (network error,
\* non-2xx status or unparsable body) the error is propagated and the session
\* identifier is left as it was, in memory and in storage.
C3_FailedResetKeepsSessionId ==
    [][Resumed("/api/reset") /\ ~Completed(settled'.http) =>
          sessionId' = sessionId /\ storage' = storage]_vars

\* a reset has just failed
C3_Witness ==
    JustSettled("/api/reset") /\ ~Completed(settled.http)

-----------------------------------------------------------------------------
(* C4 *)

\* C4, as claimed: at most one send or reset call is in flight.
C4_OneCallInFlight == Cardinality(InFlight({"chat", "reset"})) <= 1

-----------------------------------------------------------------------------
(* C5 *)

\* C5: on a page whose startup health check succeeded and on which no reset
\* was started, once N sends have all completed with a well-formed reply the
\* transcript is the welcome message followed by N pairs of a user message
\* and a bot message: 1 + 2N messages.
C5_TranscriptAfterNSends ==
    (isConnected /\ resets = 0 /\ okSends = sends) =>
        /\ Len(messages) = 1 + 2 * sends
        /\ IsWelcome(messages[1])
        /\ \A k \in 1..sends :
              /\ messages[2 * k].sender = "user"
              /\ messages[2 * k + 1].sender = "bot"

\* two sends have completed with a bot message and no reset was started
C5_Witness ==
    isConnected /\ resets = 0 /\ okSends = 2 /\ sends = 2

-----------------------------------------------------------------------------
(* C6 *)

\* C6: under FairSpec (every fetch settles), whenever the view is busy it is
\* eventually not busy again, whatever way the call ends.
C6_BusyIsNeverTerminal == isLoading ~> ~isLoading

\* the view is idle again right after a send that failed
C6_Witness ==
    JustSettled("/api/chat") /\ ~Completed(settled.http) /\ ~isLoading /\ isConnected

-----------------------------------------------------------------------------
(* C7 *)

\* C7: when the handler of a send resumes on a failed call or an unusable
\* reply, it appends exactly one message to the transcript, a system message
\* of kind "error", and no bot message.
C7_FailedSendAppendsOneError ==
    [][Resumed("/api/chat") /\ ~WellFormed(settled'.http) =>
          /\ Len(messages') = Len(messages) + 1
          /\ SubSeq(messages', 1, Len(messages)) = messages
          /\ IsSystemError(messages'[Len(messages')])]_vars

\* a reply with status "success" and no response field has just been turned
\* into a system error message
C7_Witness ==
    /\ JustSettled("/api/chat")
    /\ Completed(settled.http)
    /\ settled.http.data = [status |-> "success"]
    /\ IsSystemError(messages[Len(messages)])

-----------------------------------------------------------------------------
(* C8 *)

\* C8, as claimed: sendMessage fails whenever the exchange completes with a
\* parsable body that has a status other than "success" or no response field.
C8_SendMessageRejectsUnusableBody ==
    (JustSettled("/api/chat") /\ Completed(settled.http) /\ ~WellFormed(settled.http)) =>
        sendMessage(settled.http).settled = "rejected"

\* C8, amended: sendMessage does not inspect the body.  Whenever the exchange
\* completes with a 2xx status and a parsable body it returns that body to
\* its caller as a successful result, also when the status is not "success"
\* or the response field is missing; it is handleSendMessage that then treats
\* such a body as an error and appends the system error message.
C8_SendMessageReturnsBodyUnchecked ==
    (JustSettled("/api/chat") /\ Completed(settled.http)) =>
        /\ sendMessage(settled.http) = Resolved(settled.http.data)
        /\ ~WellFormed(settled.http) => IsSystemError(messages[Len(messages)])

\* a body with a status other than "success" has just been handled
C8_Witness ==
    /\ JustSettled("/api/chat")
    /\ Completed(settled.http)
    /\ settled.http.data.status # "success"

-----------------------------------------------------------------------------
(* C9 *)

\* C9: within one lifetime of the persisted storage all calls of
\* getOrCreateSessionId with no reset between them return the same string,
\* across sends, health checks and page reloads, and a value once persisted
\* is never overwritten by a later call: only a call on empty storage
\* generates and persists.
C9_SessionIdIsStable ==
    /\ [](Cardinality(returned) <= 1)
    /\ [][(KEY \in DOMAIN storage /\ KEY \in DOMAIN storage') =>
              storage'[KEY] = storage[KEY]]_vars

\* the page was reloaded after calls had been made and the identifier
\* returned to the new client is the persisted one
C9_Witness ==
    /\ calls > 0 /\ sends = 0 /\ resets = 0
    /\ KEY \in DOMAIN storage
    /\ returned = {storage[KEY]}
    /\ sessionId = storage[KEY]

-----------------------------------------------------------------------------
(* C10 *)

\* C10, as claimed: a send action is accepted (a user message appended, a
\* request issued) only if its text is not empty after trimming and the view
\* is connected and not busy.
C10_SendRejectedUnlessIdleAndNonEmpty ==
    [][sends' = sends + 1 =>
          /\ trim(messages'[Len(messages')].text) # <<>>
          /\ ~isLoading
          /\ isConnected]_vars

-----------------------------------------------------------------------------
(* C11 *)

\* what typing v into the input box and invoking the send protocol does to
\* the transcript and the calls in flight: nothing when v is empty after
\* trimming, else a user message and a request with the trimmed v
TypedSendEffect(v) ==
    IF trim(v) = <<>>
    THEN UNCHANGED <<messages, pending>>
    ELSE /\ messages' = Append(messages, UserMessage(now, trim(v)))
         /\ pending' = pending \cup {ChatRequest(NextCall, trim(v), sessionId)}

\* C11, as claimed: activating a quick-reply button with value v does what
\* typing v and sending does, for every v and whatever the input box holds,
\* and the text sent and shown is v verbatim when the send is accepted.
C11_QuickReplyIsTypingItsValue ==
    [][\A i \in 1..Len(messages), k \in 1..Len(ReplyButtons) :
          ClickQuickReply(i, k) =>
              /\ TypedSendEffect(messages[i].buttons[k].value)
              /\ sends' = sends + 1 =>
                    messages'[Len(messages')].text = messages[i].buttons[k].value]_vars

-----------------------------------------------------------------------------
(* C12 *)

-----------------------------------------------------------------------------
(* C13 *)

\* C13, as claimed: healthCheck resolves for every response with a 2xx
\* status, whatever its body, and fails for every other status and for every
\* network failure.
C13_Any2xxIsHealthy ==
    JustSettled("/health") =>
        (healthCheck(settled.http).settled = "resolved"
            <=> (settled.http.net = "response" /\ ok(settled.http.status)))

-----------------------------------------------------------------------------
(* C14 *)

IsPrefix(a, b) == Len(a) <= Len(b) /\ SubSeq(b, 1, Len(a)) = a

IsFreshBotMessage(m) == m.sender = "bot" /\ m.type = "message"

\* C14, as claimed: on one page, every step other than the end of a reset
\* leaves the transcript a prefix of the new transcript, and the end of a
\* reset replaces it by exactly one fresh bot message of kind "message".
C14_AppendOnlyButReset ==
    [][~Reload =>
          IF Resumed("/api/reset")
          THEN Len(messages') = 1 /\ IsFreshBotMessage(messages'[1])
          ELSE IsPrefix(messages, messages')]_vars

\* C14, amended: on one page, a reset that succeeds replaces the transcript
\* by exactly one fresh bot message of kind "message", the end of the startup
\* health check replaces it by exactly one seed message, and every other
\* step, the end of a failed reset included, leaves the transcript a prefix
\* of the new transcript.
C14_AppendOnlyButSeeding ==
    [][~Reload =>
          IF Resumed("/api/reset") /\ Completed(settled'.http)
          THEN Len(messages') = 1 /\ IsFreshBotMessage(messages'[1])
          ELSE IF Resumed("/health")
          THEN Len(messages') = 1
          ELSE IsPrefix(messages, messages')]_vars

\* a reply has just been appended to a transcript that holds the welcome
\* message and the user message before it
C14_Witness ==
    /\ JustSettled("/api/chat")
    /\ Len(messages) >= 3
    /\ IsWelcome(messages[1])

-----------------------------------------------------------------------------
(* C15 *)

\* C15: when a send fails, whatever the reason (network failure, non-2xx
\* status, unparsable body, status other than "success", missing response),
\* the step that ends it appends the same system message of kind "error" with
\* the fixed apology text and no buttons, clears the busy flag and leaves the
\* connectivity flag and the input box as they were: the state after the
\* failure is a function of the state before it alone.
C15_FailureOutcomeIsUniform ==
    [][(Resumed("/api/chat") /\ ~WellFormed(settled'.http)) =>
          /\ messages' = Append(messages,
                                [id |-> now + 1, text |-> ApologyText, sender |-> "system",
                                 type |-> "error", buttons |-> <<>>])
          /\ ~isLoading'
          /\ UNCHANGED <<isConnected, inputMessage, sessionId, storage>>]_vars

\* a send has just failed at the network level and the apology is the last
\* message
C15_Witness ==
    /\ JustSettled("/api/chat")
    /\ settled.http.net = "failed"
    /\ messages # <<>>
    /\ messages[Len(messages)].text = ApologyText
    /\ messages[Len(messages)].sender = "system"

-----------------------------------------------------------------------------
(* C16 *)

\* C16, as claimed: when a send ends with a well-formed reply, the bot message
\* appended carries the reply's text unchanged, the reply's type when present
\* and "message" when absent, the reply's buttons in order when present and
\* none when absent, and the user message with the text that was sent is in
\* the transcript the bot message is appended to.
C16_BotMessageFollowsItsUserMessage ==
    [][(Resumed("/api/chat") /\ WellFormed(settled'.http)) =>
          LET reply == settled'.http.data.response
              sent == CHOOSE c \in pending \ pending' : TRUE
          IN  /\ messages' =
                   Append(messages,
                          [id |-> now + 1, text |-> reply.text, sender |-> "bot",
                           type |-> IF "type" \in DOMAIN reply THEN reply.type ELSE "message",
                           buttons |-> IF "buttons" \in DOMAIN reply
                                       THEN reply.buttons ELSE <<>>])
              /\ \E i \in 1..Len(messages) :
                    /\ messages[i].sender = "user"
                    /\ messages[i].text = sent.body.message]_vars

-----------------------------------------------------------------------------
(* C17 *)

\* C17: a send, from the step that issues its request to the step that ends
\* it, and the startup health check, whether they succeed or fail, leave the
\* session identifier in memory and the persisted value unchanged; and no
\* step of the client removes the persisted value: only the clearing of the
\* storage from outside does.
C17_OnlyResetWritesSessionId ==
    [][/\ (sends' = sends + 1 \/ Resumed("/api/chat") \/ Resumed("/health"))
              => UNCHANGED <<sessionId, storage>>
       /\ (KEY \in DOMAIN storage /\ ~ClearStorage) => KEY \in DOMAIN storage']_vars

\* a send has just ended with a well-formed reply and the identifier in
\* memory is the persisted one
C17_Witness ==
    /\ JustSettled("/api/chat")
    /\ WellFormed(settled.http)
    /\ KEY \in DOMAIN storage
    /\ sessionId = storage[KEY]

-----------------------------------------------------------------------------
(* C18 *)

-----------------------------------------------------------------------------
(* C19 *)

\* C19, as claimed: no two messages of the transcript carry the same id.
C19_MessageIdsAreUnique ==
    \A i, j \in 1..Len(messages) : i < j => messages[i].id # messages[j].id

-----------------------------------------------------------------------------
(* C20 *)

\* C20: whenever the storage holds a value under the key, the session
\* identifier in memory equals it, and every request issued to /api/chat and
\* /api/reset carries the identifier in memory, hence the persisted one.
C20_MemoryMatchesStorage ==
    /\ [](KEY \in DOMAIN storage => sessionId = storage[KEY])
    /\ [][\A c \in pending' \ pending :
             "body" \in DOMAIN c =>
                /\ c.body.session_id = sessionId'
                /\ KEY \in DOMAIN storage' => c.body.session_id = storage'[KEY]]_vars

\* after a reset has completed, a request is in flight that carries the
\* persisted identifier
C20_Witness ==
    /\ resets > 0
    /\ InFlight({"reset"}) = {}
    /\ KEY \in DOMAIN storage
    /\ \E c \in InFlight({"chat"}) : c.body.session_id = storage[KEY]

-----------------------------------------------------------------------------
(* C21 *)

\* C21: only the end of the startup health check (and the loading of a new
\* page) writes the connectivity flag: every step of a send and of a reset,
\* successful or failed, leaves it unchanged; so once the startup health
\* check has failed the view stays Disconnected, with the input box and the
\* send button disabled, until the page is reloaded, also after a reset that
\* succeeds and seeds the welcome message.
C21_OnlyStartupWritesConnected ==
    /\ [](~isConnected => (~InputEnabled /\ ~SendButtonEnabled))
    /\ [][/\ (~Reload /\ ~Resumed("/health")) => isConnected' = isConnected
          /\ (~isConnected /\ HealthRequest \notin pending /\ ~Reload) => ~isConnected']_vars

\* the startup health check has failed and a reset has then succeeded: the
\* welcome message is shown and the view is still Disconnected
C21_Witness ==
    /\ JustSettled("/api/reset")
    /\ Completed(settled.http)
    /\ HealthRequest \notin pending
    /\ ~isConnected
    /\ ~InputEnabled
    /\ Len(messages) = 1 /\ IsWelcome(messages[1])

-----------------------------------------------------------------------------
(* C22 *)

\* C22, as claimed: the bot reply or system error message that ends a send is
\* appended to a transcript that still holds the user message of that send,
\* so it comes after it; a reply to a send issued before a reset is never
\* appended to the transcript seeded by that reset.
C22_ReplyComesAfterItsUserMessage ==
    [][Resumed("/api/chat") =>
          LET sent == CHOOSE c \in pending \ pending' : TRUE
              last == messages'[Len(messages')]
          IN  /\ Len(messages') = Len(messages) + 1
              /\ last.sender \in {"bot", "system"}
              /\ \E i \in 1..Len(messages) :
                    /\ messages'[i].sender = "user"
                    /\ messages'[i].text = sent.body.message
                    /\ messages'[i].id <= last.id]_vars

====
